---- MODULE Spec2Model ----
\* Todo store (TodoModel) over the localStorage adapter (StorageService),
\* with its subscribers, as a state machine.
EXTENDS Integers, Sequences, FiniteSets, TLC

VARIABLES
    todos,          \* TodoModel.todos: the ordered list of items
    nextId,         \* TodoModel.nextId
    listeners,      \* TodoModel.listeners: the callbacks, in subscription order
    localStorage,   \* the browser's key/value storage: full key -> JSON text
    stack,          \* the running notify() calls, outermost first
    inputValue,     \* TodoForm.inputValue: the text in the form's input
    todoItem,       \* a TodoItem component: its todo property, isEditing and editValue
    adapter,        \* the storage service the store was given: how its save() ends
    viewTodos,      \* TodoApp.todos: the view's copy of the list, [] while no TodoApp exists
    issuedLog,      \* history: the ids addTodo has assigned, in order, over all restarts
    epochStart,     \* history: Len(issuedLog) when the current store was constructed
    last            \* history: the step just taken

vars == <<todos, nextId, listeners, localStorage, adapter, todoItem, inputValue, stack, viewTodos,
          issuedLog,
          epochStart, last>>

-----------------------------------------------------------------------------
\* Bounds of the model.

\* addTodo is explored until this many ids have been assigned.
MaxAdds == 2
\* subscribe is explored until the store has this many listeners.
MaxListeners == 2
\* A callback calls back into the store only while at most this many notify()
\* calls are running.
MaxDepth == 1

-----------------------------------------------------------------------------
\* JavaScript values that reach the store.

\* A string is the sequence of its characters.
Str(s) == [t |-> "string", s |-> s]
Undefined == [t |-> "undefined", s |-> <<>>]
\* A non-zero number: truthy, and without a trim method.
SomeNumber == [t |-> "number", s |-> <<>>]

\* The texts the callers pass.
TextArgs ==
    { Str(<<>>), Str(<<" ", " ">>),
      Str(<<"a">>), Str(<<" ", "a", " ", "b", " ">>),
      Undefined, SomeNumber }

\* The ids the callers pass: every id the store can have assigned, and one it cannot.
IdArgs == 1 .. (MaxAdds + 1)

\* ToBoolean(v), as `!text` and `todo && newText` use it.
Truthy(v) == \/ v.t = "number"
             \/ v.t = "string" /\ v.s # <<>>

IsWhiteSpace(c) == c = " "

RECURSIVE trimStart(_)
trimStart(s) ==
    IF s # <<>> /\ IsWhiteSpace(Head(s)) THEN trimStart(Tail(s)) ELSE s

RECURSIVE trimEnd(_)
trimEnd(s) ==
    IF s # <<>> /\ IsWhiteSpace(s[Len(s)]) THEN trimEnd(SubSeq(s, 1, Len(s) - 1)) ELSE s

\* Faulty variant: only leading white space is removed.
trimLeadingOnly(s) == trimStart(s)

\* String.prototype.trim
trim(s) == trimEnd(trimStart(s))

\* The state of the TodoItem component where none is rendered.
NoTodoItem == [todo |-> Undefined, isEditing |-> FALSE, editValue |-> <<>>]

-----------------------------------------------------------------------------
\* StorageService over localStorage.

storageKey == "todos"

\* `${this.storageKey}_${key}`: the pieces of the concatenation.
FullKey(key) == <<storageKey, "_", key>>

\* The keys the store uses.
StorageKeys == {FullKey("items"), FullKey("nextId")}

\* localStorage.getItem of a key that is not stored.
NoItem == <<>>

\* JSON.stringify of the values the store saves: the text of a number, and the
\* text of an array of objects, each object the list of its properties.
StringifyNumber(n) == <<"number", n>>
StringifyTodo(t) == <<"{", t.id, t.text, t.completed, t.createdAt, "}">>
StringifyTodos(ts) == <<"[">> \o [i \in 1..Len(ts) |-> StringifyTodo(ts[i])] \o <<"]">>

\* JSON.parse of those texts.
ParseNumber(j) == j[2]
\* Faulty variant: the completed flag is lost on the way through storage.
ParseTodoWithoutFlag(j) ==
    [id |-> j[2], text |-> j[3], completed |-> FALSE, createdAt |-> j[5]]

ParseTodo(j) == [id |-> j[2], text |-> j[3], completed |-> j[4], createdAt |-> j[5]]
ParseTodos(j) == [i \in 1..(Len(j) - 2) |-> ParseTodo(j[i + 1])]

\* StorageService.save: localStorage.setItem(fullKey, JSON.stringify(data))
StorageSave(ls, key, json) == [ls EXCEPT ![FullKey(key)] = json]

\* localStorage after a sequence of saves, each <<key, JSON text>>.
RECURSIVE Saved(_, _)
Saved(ls, saves) ==
    IF saves = <<>> THEN ls
    ELSE Saved(StorageSave(ls, Head(saves)[1], Head(saves)[2]), Tail(saves))

\* The full keys a sequence of saves writes, in order.
KeysWritten(saves) == [i \in 1..Len(saves) |-> FullKey(saves[i][1])]

\* StorageService.load: item ? JSON.parse(item) : defaultValue
LoadTodos(ls) ==
    LET item == ls[FullKey("items")]
    IN  IF item # NoItem THEN ParseTodos(item) ELSE <<>>

\* Faulty variant: the constructor starts the counter afresh.
LoadNextIdDefault(ls) == 1

LoadNextId(ls) ==
    LET item == ls[FullKey("nextId")]
    IN  IF item # NoItem THEN ParseNumber(item) ELSE 1

\* Faulty variant: the counter is not persisted.
saveItemsOnly(ts, nid) ==
    << <<"items", StringifyTodos(ts)>> >>

\* TodoModel.save: the two saves it makes, in order.
save(ts, nid) ==
    << <<"items", StringifyTodos(ts)>>, <<"nextId", StringifyNumber(nid)>> >>

\* How the two storage.save calls of one save() can end, each as the sequence
\* of the calls made, TRUE for a call that stored its value. A "reliable"
\* service stores every value. A "raising" service is one whose save lets the
\* error out, so that the call after a failed one is not made. A "swallowing"
\* service is StorageService over a localStorage whose setItem can throw: the
\* catch block logs the error and save returns.
SaveOutcomes(a) ==
    CASE a = "reliable" -> { <<TRUE, TRUE>> }
      [] a = "raising" -> { <<TRUE, TRUE>>, <<FALSE>>, <<TRUE, FALSE>> }
      [] a = "swallowing" -> [1..2 -> BOOLEAN]

\* Faulty variant: save() catches the error of a save call.
RaisesNever(ok) == FALSE

\* The error of a save call leaves save().
Raises(ok) == adapter = "raising" /\ \E k \in 1..Len(ok) : ~ok[k]

\* The saves that stored their value.
Stored(saves, ok) ==
    SelectSeq(saves, LAMBDA sv : \E k \in 1..Len(ok) : ok[k] /\ saves[k] = sv)

-----------------------------------------------------------------------------
\* TodoModel: what each operation does to the list.

\* this.todos.find(t => t.id === id): the index of the first match, 0 for none.
FindIndex(ts, id) ==
    IF \E i \in 1..Len(ts) : ts[i].id = id
    THEN CHOOSE i \in 1..Len(ts) :
            /\ ts[i].id = id
            /\ \A j \in 1..(i - 1) : ts[j].id # id
    ELSE 0

\* new Date().toISOString(): the clock is read once by each addTodo that adds,
\* and a reading is named by its number in the order of the readings.
Now == Len(issuedLog) + 1

\* The item addTodo builds.
NewTodo(id, text) ==
    [id |-> id, text |-> trim(text.s), completed |-> FALSE, createdAt |-> Now]

\* Faulty variant: the early return tests only !text.
AddRejectsFalsyOnly(text) == ~Truthy(text)

\* addTodo returns early: !text || text.trim() === ''
AddRejects(text) == \/ ~Truthy(text)
                    \/ text.t = "string" /\ trim(text.s) = <<>>

\* text.trim is not a function
AddThrows(text) == Truthy(text) /\ text.t # "string"

\* Faulty variant: the new item is put at the front (unshift for push).
AddedTodosAtFront(ts, nid, text) == <<NewTodo(nid, text)>> \o ts

AddedTodos(ts, nid, text) == Append(ts, NewTodo(nid, text))

\* Faulty variant: the counter is read but not advanced (this.nextId for this.nextId++).
AddedNextIdNotAdvanced(nid) == nid

AddedNextId(nid) == nid + 1

\* Faulty variant: the flag of every item is flipped.
ToggledTodosAll(ts, id) ==
    [k \in 1..Len(ts) |-> [ts[k] EXCEPT !.completed = ~ts[k].completed]]

\* Faulty variant: the flag is set instead of flipped (todo.completed = true).
ToggledTodosSetsFlag(ts, id) ==
    LET i == FindIndex(ts, id)
    IN  [ts EXCEPT ![i].completed = TRUE]

ToggledTodos(ts, id) ==
    LET i == FindIndex(ts, id)
    IN  [ts EXCEPT ![i].completed = ~ts[i].completed]

\* Faulty variant: the filter keeps only the later ids (t.id > id for t.id !== id).
DeletedTodosUpTo(ts, id) == SelectSeq(ts, LAMBDA t : t.id > id)

DeletedTodos(ts, id) == SelectSeq(ts, LAMBDA t : t.id # id)

\* Faulty variant: the text is tested as given (newText !== '').
UpdateAcceptsUntrimmed(ts, id, newText) ==
    /\ FindIndex(ts, id) # 0
    /\ Truthy(newText)
    /\ newText.t = "string"

\* updateTodo acts: todo && newText && newText.trim() !== ''
UpdateAccepts(ts, id, newText) ==
    /\ FindIndex(ts, id) # 0
    /\ Truthy(newText)
    /\ newText.t = "string"
    /\ trim(newText.s) # <<>>

\* newText.trim is not a function
UpdateThrows(ts, id, newText) ==
    /\ FindIndex(ts, id) # 0
    /\ Truthy(newText)
    /\ newText.t # "string"

\* Faulty variant: the item is replaced by a new one with the trimmed text.
UpdatedTodosReplaced(ts, id, newText) ==
    LET i == FindIndex(ts, id)
    IN  [ts EXCEPT ![i] = NewTodo(id, Str(trim(newText.s)))]

\* Faulty variant: the edit also stamps the item anew.
UpdatedTodosRestamped(ts, id, newText) ==
    LET i == FindIndex(ts, id)
    IN  [ts EXCEPT ![i].text = trim(newText.s), ![i].createdAt = Now]

\* Faulty variant: the text is tested trimmed but stored as given.
UpdatedTodosUntrimmed(ts, id, newText) ==
    LET i == FindIndex(ts, id)
    IN  [ts EXCEPT ![i].text = newText.s]

UpdatedTodos(ts, id, newText) ==
    LET i == FindIndex(ts, id)
    IN  [ts EXCEPT ![i].text = trim(newText.s)]

\* Faulty variant: the filter keeps the completed items (t => t.completed).
ClearedCompletedInverted(ts) == SelectSeq(ts, LAMBDA t : t.completed)

\* Faulty variant: only the first completed item is removed.
ClearedFirstCompleted(ts) ==
    SelectSeq(ts, LAMBDA t : \/ ~t.completed
                             \/ \E k \in 1..Len(ts) : ts[k].completed /\ ts[k].id < t.id)

ClearedCompleted(ts) == SelectSeq(ts, LAMBDA t : ~t.completed)

ClearedAll(ts) == <<>>

\* Faulty variant: the getter counts every item.
activeCountAll == Len(todos)

\* The getters; SelectSeq is Array.prototype.filter.
activeCount == Len(SelectSeq(todos, LAMBDA t : ~t.completed))
completedCount == Len(SelectSeq(todos, LAMBDA t : t.completed))

-----------------------------------------------------------------------------
\* The callbacks the environment subscribes. "view" only reads the store;
\* "caller" may call an operation of the store.
Callbacks == {"view", "caller"}

\* The callback TodoApp's constructor subscribes: this.todos = [...this.model.todos]
AppCallback == "app"

\* Faulty variant: the copy misses the last item.
CopyWithoutLast(ts) == SubSeq(ts, 1, Len(ts) - 1)

\* [...this.model.todos]: a new array of the same item objects.
CopyOf(ts) == ts

\* The view's array after the store has gone from its list to ts. The arrays
\* are distinct, the item objects are shared: an object the store still holds
\* shows in the view's array the fields the store has given it, an object the
\* store has dropped keeps the fields it had.
Shared(view, ts) ==
    [k \in 1..Len(view) |->
        IF FindIndex(ts, view[k].id) # 0 THEN ts[FindIndex(ts, view[k].id)] ELSE view[k]]

\* The record of a step.
Step(op, by, id, text, res, wrote) ==
    [op |-> op, by |-> by, id |-> id, text |-> text, res |-> res,
     wrote |-> wrote, called |-> <<>>]

\* Faulty variant: forEach starts at the second listener.
NotifyFrameSkipsFirst == [i |-> 2, called |-> <<>>, by |-> "caller"]

\* A running notify(): forEach is about to invoke listener i, has invoked
\* `called`, and runs for an operation called by `by`.
NotifyFrame == [i |-> 1, called |-> <<>>, by |-> "caller"]

\* Variant: the notification of an operation called by a callback is put off
\* until the notifications already running have ended.
EnterDeferred(base, frame) == <<frame>> \o base

\* A call made while `base` is running: the called function runs above it.
Enter(base, frame) == Append(base, frame)

\* The tail every mutating operation shares: this.save(); this.notify().
\* When a save raises, the error leaves save(), the operation and every
\* notify() and callback that runs below it, none of which catches.
SaveAndNotify(op, by, id, text, ts, nid, base) ==
    \E ok \in SaveOutcomes(adapter) :
        /\ todos' = ts
        /\ nextId' = nid
        /\ localStorage' = Saved(localStorage, Stored(save(ts, nid), ok))
        /\ stack' = (IF Raises(ok) THEN <<>> ELSE Enter(base, [NotifyFrame EXCEPT !.by = by]))
        /\ viewTodos' = Shared(viewTodos, ts)
        /\ last' = Step(op, by, id, text, IF Raises(ok) THEN "StorageError" ELSE "done",
                        KeysWritten(Stored(save(ts, nid), ok)))
        /\ UNCHANGED <<adapter, todoItem, inputValue>>

\* An operation that returns, or throws, before it changes anything.
Return(op, by, id, text, res, base) ==
    /\ stack' = base
    /\ last' = Step(op, by, id, text, res, <<>>)
    /\ viewTodos' = (IF by = "handleToggleTodo" THEN CopyOf(todos) ELSE viewTodos)
    /\ inputValue' = (IF by = "handleSubmit" THEN <<>> ELSE inputValue)
    /\ UNCHANGED <<todos, nextId, localStorage, adapter, todoItem, issuedLog>>

addTodo(text, by, base) ==
    IF AddRejects(text) THEN Return("addTodo", by, 0, text, "noop", base)
    ELSE IF AddThrows(text) THEN Return("addTodo", by, 0, text, "TypeError", base)
    ELSE /\ Len(issuedLog) < MaxAdds
         /\ issuedLog' = Append(issuedLog, nextId)
         /\ SaveAndNotify("addTodo", by, nextId, text,
                          AddedTodos(todos, nextId, text), AddedNextId(nextId), base)

\* Faulty variant: save() and notify() are outside the if (todo) block.
toggleCompleteAlwaysSaves(id, by, base) ==
    /\ SaveAndNotify("toggleComplete", by, id, Undefined,
                     IF FindIndex(todos, id) # 0 THEN ToggledTodos(todos, id) ELSE todos,
                     nextId, base)
    /\ UNCHANGED issuedLog

toggleComplete(id, by, base) ==
    IF FindIndex(todos, id) # 0
    THEN /\ SaveAndNotify("toggleComplete", by, id, Undefined,
                          ToggledTodos(todos, id), nextId, base)
         /\ UNCHANGED issuedLog
    ELSE Return("toggleComplete", by, id, Undefined, "noop", base)

\* Faulty variant: deleteTodo returns early when no item has the id.
deleteTodoSkipsWhenMissing(id, by, base) ==
    IF FindIndex(todos, id) # 0
    THEN /\ SaveAndNotify("deleteTodo", by, id, Undefined, DeletedTodos(todos, id), nextId, base)
         /\ UNCHANGED issuedLog
    ELSE Return("deleteTodo", by, id, Undefined, "noop", base)

deleteTodo(id, by, base) ==
    /\ SaveAndNotify("deleteTodo", by, id, Undefined, DeletedTodos(todos, id), nextId, base)
    /\ UNCHANGED issuedLog

updateTodo(id, newText, by, base) ==
    IF UpdateAccepts(todos, id, newText)
    THEN /\ SaveAndNotify("updateTodo", by, id, newText,
                          UpdatedTodos(todos, id, newText), nextId, base)
         /\ UNCHANGED issuedLog
    ELSE IF UpdateThrows(todos, id, newText)
    THEN Return("updateTodo", by, id, newText, "TypeError", base)
    ELSE Return("updateTodo", by, id, newText, "noop", base)

clearCompleted(by, base) ==
    /\ SaveAndNotify("clearCompleted", by, 0, Undefined, ClearedCompleted(todos), nextId, base)
    /\ UNCHANGED issuedLog

\* Faulty variant: clearAll also resets the counter (this.nextId = 1).
clearAllResetsNextId(by, base) ==
    /\ SaveAndNotify("clearAll", by, 0, Undefined, ClearedAll(todos), 1, base)
    /\ UNCHANGED issuedLog

clearAll(by, base) ==
    /\ SaveAndNotify("clearAll", by, 0, Undefined, ClearedAll(todos), nextId, base)
    /\ UNCHANGED issuedLog

\* Any operation of the store, with any of the arguments in `texts` and IdArgs.
Operation(texts, by, base) ==
    \/ \E text \in texts : addTodo(text, by, base)
    \/ \E id \in IdArgs : toggleComplete(id, by, base)
    \/ \E id \in IdArgs : deleteTodo(id, by, base)
    \/ \E id \in IdArgs : \E text \in texts : updateTodo(id, text, by, base)
    \/ clearCompleted(by, base)
    \/ clearAll(by, base)

-----------------------------------------------------------------------------
\* The steps of the program.

Idle == stack = <<>>

\* The texts explored: all of TextArgs while saves are reliable, one accepted
\* and one rejected text where saves can fail.
Texts == IF adapter = "reliable" THEN TextArgs ELSE {Str(<<"a">>), Undefined}

\* The application calls the store from an event handler.
AddTodo == Idle /\ (\E text \in Texts : addTodo(text, "caller", stack))
           /\ UNCHANGED <<listeners, epochStart>>

ToggleComplete == Idle /\ (\E id \in IdArgs : toggleComplete(id, "caller", stack))
                  /\ UNCHANGED <<listeners, epochStart>>

DeleteTodo == Idle /\ (\E id \in IdArgs : deleteTodo(id, "caller", stack))
              /\ UNCHANGED <<listeners, epochStart>>

UpdateTodo == Idle /\ (\E id \in IdArgs : \E text \in Texts :
                          updateTodo(id, text, "caller", stack))
              /\ UNCHANGED <<listeners, epochStart>>

ClearCompleted == Idle /\ clearCompleted("caller", stack)
                  /\ UNCHANGED <<listeners, epochStart>>

ClearAll == Idle /\ clearAll("caller", stack)
            /\ UNCHANGED <<listeners, epochStart>>

\* subscribe(listener): this.listeners.push(listener)
Subscribe ==
    /\ Idle
    /\ Len(listeners) < MaxListeners
    /\ \E c \in Callbacks :
          /\ listeners' = Append(listeners, c)
          /\ last' = [Step("subscribe", "caller", 0, Undefined, "done", <<>>)
                        EXCEPT !.called = <<c>>]
    /\ UNCHANGED <<todos, nextId, localStorage, adapter, todoItem, inputValue, stack,
                   viewTodos, issuedLog,
                   epochStart>>

\* new TodoModel(storageService) over the storage as it is.
Construct ==
    /\ todos' = LoadTodos(localStorage)
    /\ nextId' = LoadNextId(localStorage)
    /\ epochStart' = Len(issuedLog)
    /\ last' = Step("constructor", "caller", 0, Undefined, "done", <<>>)
    /\ UNCHANGED <<localStorage, adapter, todoItem, stack, issuedLog>>

\* The store is constructed again over the same storage.
Restart ==
    /\ Idle
    /\ Construct
    /\ listeners' = <<>>
    /\ UNCHANGED <<viewTodos, inputValue>>

Top == stack[Len(stack)]

\* The stack with forEach of the top notify() moved past listener i.
Invoked ==
    [stack EXCEPT ![Len(stack)] =
        [@ EXCEPT !.i = @ + 1, !.called = Append(@, listeners[Top.i])]]

\* notify() invokes its next listener, and the listener returns without
\* calling the store.
CallbackReturns ==
    /\ ~Idle
    /\ Top.i <= Len(listeners)
    /\ stack' = Invoked
    /\ last' = [Step("listener", "notify", 0, Undefined, "done", <<>>)
                  EXCEPT !.called = <<listeners[Top.i]>>]
    /\ viewTodos' = (IF listeners[Top.i] = AppCallback THEN CopyOf(todos) ELSE viewTodos)
    /\ UNCHANGED <<todos, nextId, listeners, localStorage, adapter, todoItem, inputValue,
                   issuedLog, epochStart>>

\* The texts a callback passes.
CallbackTexts == { Str(<<>>), Str(<<"a">>) }

\* notify() invokes its next listener, and the listener calls an operation of
\* the store.
CallbackCalls ==
    /\ ~Idle
    /\ Top.i <= Len(listeners)
    /\ listeners[Top.i] = "caller"
    /\ Len(stack) <= MaxDepth
    /\ Operation(CallbackTexts, "callback", Invoked)
    /\ UNCHANGED <<listeners, epochStart>>

\* forEach has invoked every listener: notify() and the operation return.
NotifyReturns ==
    /\ ~Idle
    /\ Top.i > Len(listeners)
    /\ stack' = SubSeq(stack, 1, Len(stack) - 1)
    /\ last' = [Step("notify", "notify", 0, Undefined, "returned", <<>>)
                  EXCEPT !.called = Top.called]
    /\ viewTodos' = (IF Top.by = "handleToggleTodo" THEN CopyOf(todos) ELSE viewTodos)
    /\ inputValue' = (IF Top.by = "handleSubmit" THEN <<>> ELSE inputValue)
    /\ UNCHANGED <<todos, nextId, listeners, localStorage, adapter, todoItem, issuedLog,
                   epochStart>>

Init ==
    /\ localStorage = [k \in StorageKeys |-> NoItem]
    /\ todos = LoadTodos(localStorage)
    /\ nextId = LoadNextId(localStorage)
    /\ listeners = <<>>
    /\ adapter = "reliable"
    /\ todoItem = NoTodoItem
    /\ inputValue = <<>>
    /\ stack = <<>>
    /\ viewTodos = <<>>
    /\ issuedLog = <<>>
    /\ epochStart = 0
    /\ last = Step("constructor", "caller", 0, Undefined, "done", <<>>)

Next ==
    \/ AddTodo
    \/ ToggleComplete
    \/ DeleteTodo
    \/ UpdateTodo
    \/ ClearCompleted
    \/ ClearAll
    \/ Subscribe
    \/ Restart
    \/ CallbackReturns
    \/ CallbackCalls
    \/ NotifyReturns

Spec == Init /\ [][Next]_vars

\* The store over a storage service whose save can raise.
InitRaising ==
    /\ localStorage = [k \in StorageKeys |-> NoItem]
    /\ todos = LoadTodos(localStorage)
    /\ nextId = LoadNextId(localStorage)
    /\ listeners = <<>>
    /\ adapter = "raising"
    /\ todoItem = NoTodoItem
    /\ inputValue = <<>>
    /\ stack = <<>>
    /\ viewTodos = <<>>
    /\ issuedLog = <<>>
    /\ epochStart = 0
    /\ last = Step("constructor", "caller", 0, Undefined, "done", <<>>)

SpecRaising == InitRaising /\ [][Next]_vars

\* The store over StorageService, with a localStorage whose setItem can throw.
InitSwallowing ==
    /\ localStorage = [k \in StorageKeys |-> NoItem]
    /\ todos = LoadTodos(localStorage)
    /\ nextId = LoadNextId(localStorage)
    /\ listeners = <<>>
    /\ adapter = "swallowing"
    /\ todoItem = NoTodoItem
    /\ inputValue = <<>>
    /\ stack = <<>>
    /\ viewTodos = <<>>
    /\ issuedLog = <<>>
    /\ epochStart = 0
    /\ last = Step("constructor", "caller", 0, Undefined, "done", <<>>)

SpecSwallowing == InitSwallowing /\ [][Next]_vars

-----------------------------------------------------------------------------
\* The application as index.html mounts it: one TodoApp, whose constructor
\* makes the store, copies its list and subscribes its one callback.

\* The TodoApp constructor, after new TodoModel(...); the page's TodoForm is
\* constructed with it.
AppConstructed ==
    /\ viewTodos' = CopyOf(todos')
    /\ listeners' = <<AppCallback>>
    /\ inputValue' = <<>>

HandleAddTodo == AddTodo

HandleToggleTodo ==
    /\ Idle
    /\ \E id \in IdArgs : toggleComplete(id, "handleToggleTodo", stack)
    /\ UNCHANGED <<listeners, epochStart>>

HandleDeleteTodo == DeleteTodo

HandleUpdateTodo == UpdateTodo

\* confirm(...) answered with Cancel: the handler does nothing.
Declined(handler) ==
    /\ Idle
    /\ last' = Step(handler, "caller", 0, Undefined, "declined", <<>>)
    /\ UNCHANGED <<todos, nextId, listeners, localStorage, adapter, todoItem, inputValue, stack, viewTodos,
                   issuedLog, epochStart>>

HandleClearCompleted == ClearCompleted \/ Declined("handleClearCompleted")

HandleClearAll == ClearAll \/ Declined("handleClearAll")

\* The page is loaded again.
Reload ==
    /\ Idle
    /\ Construct
    /\ AppConstructed

InitApp ==
    /\ localStorage = [k \in StorageKeys |-> NoItem]
    /\ todos = LoadTodos(localStorage)
    /\ nextId = LoadNextId(localStorage)
    /\ listeners = <<AppCallback>>
    /\ adapter = "reliable"
    /\ todoItem = NoTodoItem
    /\ inputValue = <<>>
    /\ stack = <<>>
    /\ viewTodos = CopyOf(todos)
    /\ issuedLog = <<>>
    /\ epochStart = 0
    /\ last = Step("constructor", "caller", 0, Undefined, "done", <<>>)

NextApp ==
    \/ HandleAddTodo
    \/ HandleToggleTodo
    \/ HandleDeleteTodo
    \/ HandleUpdateTodo
    \/ HandleClearCompleted
    \/ HandleClearAll
    \/ Reload
    \/ CallbackReturns
    \/ NotifyReturns

SpecApp == InitApp /\ [][NextApp]_vars

-----------------------------------------------------------------------------
\* The application with its TodoForm: items are added through the form,
\* whose add-todo event TodoApp.handleAddTodo passes to addTodo.

\* What the user leaves in the form's input.
FormInputs == { <<>>, <<" ", " ">>, <<"a">>, <<" ", "a", " ", "b", " ">> }

\* handleInput: this.inputValue = e.target.value
HandleInput ==
    /\ Idle
    /\ \E value \in FormInputs :
          /\ value # inputValue
          /\ inputValue' = value
    /\ last' = Step("handleInput", "caller", 0, Undefined, "done", <<>>)
    /\ UNCHANGED <<todos, nextId, listeners, localStorage, adapter, todoItem, stack, viewTodos,
                   issuedLog, epochStart>>

\* Faulty variant: the event carries the input as typed.
handleSubmitUntrimmed ==
    IF trim(inputValue) # <<>>
    THEN addTodo(Str(inputValue), "handleSubmit", stack)
    ELSE /\ last' = Step("handleSubmit", "caller", 0, Undefined, "nothing", <<>>)
         /\ UNCHANGED <<todos, nextId, localStorage, adapter, todoItem, inputValue, stack,
                        viewTodos, issuedLog>>

\* handleSubmit: text = this.inputValue.trim(); if (text) the add-todo event
\* is dispatched, which runs handleAddTodo and so addTodo(text) before
\* dispatchEvent returns; this.inputValue = '' follows the return.
handleSubmit ==
    IF trim(inputValue) # <<>>
    THEN addTodo(Str(trim(inputValue)), "handleSubmit", stack)
    ELSE /\ last' = Step("handleSubmit", "caller", 0, Undefined, "nothing", <<>>)
         /\ UNCHANGED <<todos, nextId, localStorage, adapter, todoItem, inputValue, stack,
                        viewTodos, issuedLog>>

HandleSubmit ==
    /\ Idle
    /\ handleSubmit
    /\ UNCHANGED <<listeners, epochStart>>

NextForm ==
    \/ HandleInput
    \/ HandleSubmit
    \/ HandleToggleTodo
    \/ HandleDeleteTodo
    \/ HandleUpdateTodo
    \/ HandleClearCompleted
    \/ HandleClearAll
    \/ Reload
    \/ CallbackReturns
    \/ NotifyReturns

SpecForm == InitApp /\ [][NextForm]_vars

-----------------------------------------------------------------------------
\* StorageService on its own: several services over one localStorage, which
\* other scripts of the page write to as well.

\* The storageKey of each service, a string being the sequence of its pieces:
\* the default 'todos', and 'todos2', which starts with it.
Services == { <<storageKey>>, <<storageKey, "2">> }

\* The keys passed to save, load and remove.
ServiceKeys == {"items", "nextId"}

\* `${this.storageKey}_${key}`
FullKeyOf(sk, key) == sk \o <<"_", key>>

\* Every key localStorage is explored with: those of the services, one of
\* another script that starts with 'todos', and one that does not.
AllKeys ==
    {FullKeyOf(sk, key) : sk \in Services, key \in ServiceKeys}
        \cup { <<storageKey, "Theme">>, <<"theme">> }

\* The values saved, and the default passed to load.
ServiceValues == {1, 2}
DefaultValue == 0

\* A text JSON.parse throws on.
NotJson == <<"not json">>

\* JSON.parse(item) returns.
Parses(item) == item[1] = "number"

\* key.startsWith(prefix)
StartsWith(key, prefix) ==
    Len(key) >= Len(prefix) /\ SubSeq(key, 1, Len(prefix)) = prefix

\* The keys localStorage.key(0), .key(1), ... give: those stored.
StoredKeys(ls) == {key \in DOMAIN ls : ls[key] # NoItem}

\* StorageService.load: item ? JSON.parse(item) : defaultValue, and
\* defaultValue from the catch block.
LoadOf(ls, sk, key, defaultValue) ==
    LET item == ls[FullKeyOf(sk, key)]
    IN  IF item # NoItem /\ Parses(item) THEN ParseNumber(item) ELSE defaultValue

\* StorageService.clear: the keys its loop collects, all removed afterwards.
keysToRemove(ls, sk) == {key \in StoredKeys(ls) : StartsWith(key, sk)}

ServiceStep(op, sk, key, value, res) ==
    [op |-> op, sk |-> sk, key |-> key, value |-> value, res |-> res]

\* Nothing but localStorage and the step record changes.
StoreUntouched ==
    UNCHANGED <<todos, nextId, listeners, adapter, todoItem, inputValue, stack, viewTodos, issuedLog,
               epochStart>>

\* save(key, value): setItem stores the text, or throws and the error is logged.
ServiceSave ==
    /\ \E sk \in Services : \E key \in ServiceKeys : \E value \in ServiceValues :
          \E ok \in BOOLEAN :
            /\ localStorage' =
                  (IF ok THEN [localStorage EXCEPT ![FullKeyOf(sk, key)] = StringifyNumber(value)]
                   ELSE localStorage)
            /\ last' = ServiceStep("save", sk, key, value, IF ok THEN "stored" ELSE "swallowed")
    /\ StoreUntouched

\* load(key, defaultValue)
ServiceLoad ==
    /\ \E sk \in Services : \E key \in ServiceKeys :
          last' = ServiceStep("load", sk, key, DefaultValue,
                              LoadOf(localStorage, sk, key, DefaultValue))
    /\ UNCHANGED localStorage
    /\ StoreUntouched

\* Faulty variant: remove(key) removes every key of the service.
ServiceRemoveAll ==
    /\ \E sk \in Services : \E key \in ServiceKeys :
          /\ localStorage' =
                [fk \in DOMAIN localStorage |->
                    IF \E k \in ServiceKeys : fk = FullKeyOf(sk, k) THEN NoItem
                    ELSE localStorage[fk]]
          /\ last' = ServiceStep("remove", sk, key, DefaultValue, "done")
    /\ StoreUntouched

\* remove(key)
ServiceRemove ==
    /\ \E sk \in Services : \E key \in ServiceKeys :
          /\ localStorage' = [localStorage EXCEPT ![FullKeyOf(sk, key)] = NoItem]
          /\ last' = ServiceStep("remove", sk, key, DefaultValue, "done")
    /\ StoreUntouched

\* clear()
ServiceClear ==
    /\ \E sk \in Services :
          /\ localStorage' =
                [key \in DOMAIN localStorage |->
                    IF key \in keysToRemove(localStorage, sk) THEN NoItem
                    ELSE localStorage[key]]
          /\ last' = ServiceStep("clear", sk, "", DefaultValue, "done")
    /\ StoreUntouched

\* Another script of the page stores a text of its own under some key.
OtherScriptWrites ==
    /\ \E key \in AllKeys :
          /\ localStorage' = [localStorage EXCEPT ![key] = NotJson]
          /\ last' = ServiceStep("setItem", <<>>, key, DefaultValue, "done")
    /\ StoreUntouched

InitStorage ==
    /\ localStorage = [key \in AllKeys |-> NoItem]
    /\ todos = <<>>
    /\ nextId = 1
    /\ listeners = <<>>
    /\ adapter = "swallowing"
    /\ todoItem = NoTodoItem
    /\ inputValue = <<>>
    /\ stack = <<>>
    /\ viewTodos = <<>>
    /\ issuedLog = <<>>
    /\ epochStart = 0
    /\ last = ServiceStep("constructor", <<storageKey>>, "", DefaultValue, "done")

NextStorage ==
    \/ ServiceSave
    \/ ServiceLoad
    \/ ServiceRemove
    \/ ServiceClear
    \/ OtherScriptWrites

SpecStorage == InitStorage /\ [][NextStorage]_vars

-----------------------------------------------------------------------------
\* A TodoItem component on its own: its edit mode, the text typed into its
\* input, and the events it dispatches to its parent.

\* The todo property the parent passes: an item of the store.
ItemTodos ==
    { [id |-> id, text |-> text, completed |-> FALSE, createdAt |-> id] :
        id \in 1..2, text \in { <<"a">>, <<"a", " ", "b">> } }

\* What the user leaves in the input.
InputValues == { <<>>, <<" ", " ">>, <<"b">>, <<" ", "a", " ", "b", " ">> }

\* The keys pressed in the input.
Keys == {"Enter", "Escape", "x"}

ItemStep(op, dispatched) == [op |-> op, dispatched |-> dispatched]

\* Nothing but the component and the step record changes.
OnlyItemChanges ==
    UNCHANGED <<todos, nextId, listeners, localStorage, adapter, inputValue, stack, viewTodos,
               issuedLog, epochStart>>

\* handleEdit: this.isEditing = true; this.editValue = this.todo.text
handleEdit(op) ==
    /\ todoItem' = [todoItem EXCEPT !.isEditing = TRUE, !.editValue = todoItem.todo.text]
    /\ last' = ItemStep(op, <<>>)

\* Faulty variant: handleSave leaves edit mode whatever the input holds.
handleSaveAlwaysLeaves(op) ==
    /\ todoItem' = [todoItem EXCEPT !.isEditing = FALSE]
    /\ last' = ItemStep(op,
                 IF trim(todoItem.editValue) # <<>>
                 THEN << [type |-> "update-todo", id |-> todoItem.todo.id,
                          text |-> todoItem.editValue] >>
                 ELSE <<>>)

\* handleSave: if (this.editValue.trim()) { dispatch update-todo; isEditing = false }
handleSave(op) ==
    IF trim(todoItem.editValue) # <<>>
    THEN /\ todoItem' = [todoItem EXCEPT !.isEditing = FALSE]
         /\ last' = ItemStep(op, << [type |-> "update-todo", id |-> todoItem.todo.id,
                                     text |-> todoItem.editValue] >>)
    ELSE /\ todoItem' = todoItem
         /\ last' = ItemStep(op, <<>>)

\* handleCancel: this.isEditing = false; this.editValue = ''
handleCancel(op) ==
    /\ todoItem' = [todoItem EXCEPT !.isEditing = FALSE, !.editValue = <<>>]
    /\ last' = ItemStep(op, <<>>)

\* The Edit button, rendered while the item is not edited.
HandleEdit ==
    /\ ~todoItem.isEditing
    /\ handleEdit("handleEdit")
    /\ OnlyItemChanges

\* @input of the edit field: this.editValue = e.target.value
Input ==
    /\ todoItem.isEditing
    /\ \E value \in InputValues :
          /\ todoItem' = [todoItem EXCEPT !.editValue = value]
          /\ last' = ItemStep("input", <<>>)
    /\ OnlyItemChanges

\* The Save button, rendered while the item is edited.
HandleSave ==
    /\ todoItem.isEditing
    /\ handleSave("handleSave")
    /\ OnlyItemChanges

\* The Cancel button.
HandleCancel ==
    /\ todoItem.isEditing
    /\ handleCancel("handleCancel")
    /\ OnlyItemChanges

\* handleKeyDown: Enter saves, Escape cancels, any other key does nothing.
HandleKeyDown ==
    /\ todoItem.isEditing
    /\ \E key \in Keys :
          CASE key = "Enter" -> handleSave("Enter")
            [] key = "Escape" -> handleCancel("Escape")
            [] OTHER -> todoItem' = todoItem /\ last' = ItemStep(key, <<>>)
    /\ OnlyItemChanges

\* The parent renders the item again with the todo as the store now has it.
TodoChanges ==
    /\ \E todo \in ItemTodos :
          /\ todo.id = todoItem.todo.id
          /\ todoItem' = [todoItem EXCEPT !.todo = todo]
    /\ last' = ItemStep("todo", <<>>)
    /\ OnlyItemChanges

InitItem ==
    /\ localStorage = [k \in StorageKeys |-> NoItem]
    /\ todos = <<>>
    /\ nextId = 1
    /\ listeners = <<>>
    /\ adapter = "reliable"
    /\ todoItem \in { [todo |-> todo, isEditing |-> FALSE, editValue |-> <<>>] :
                        todo \in ItemTodos }
    /\ inputValue = <<>>
    /\ stack = <<>>
    /\ viewTodos = <<>>
    /\ issuedLog = <<>>
    /\ epochStart = 0
    /\ last = ItemStep("constructor", <<>>)

NextItem ==
    \/ HandleEdit
    \/ Input
    \/ HandleSave
    \/ HandleCancel
    \/ HandleKeyDown
    \/ TodoChanges

SpecItem == InitItem /\ [][NextItem]_vars

-----------------------------------------------------------------------------
\* Vocabulary of the properties.

OpNames == {"addTodo", "toggleComplete", "deleteTodo", "updateTodo",
            "clearCompleted", "clearAll"}

\* A string that is empty or consists only of white space.
IsBlank(text) == text.t = "string" /\ \A k \in 1..Len(text.s) : IsWhiteSpace(text.s[k])

\* r is s without its leading and trailing white space.
IsTrimOf(r, s) ==
    /\ r # <<>> => ~IsWhiteSpace(r[1]) /\ ~IsWhiteSpace(r[Len(r)])
    /\ \E a \in 0..Len(s) : \E b \in a..Len(s) :
          /\ r = SubSeq(s, a + 1, b)
          /\ \A k \in (1..a) \cup ((b + 1)..Len(s)) : IsWhiteSpace(s[k])

\* The list ts has an item with this id.
Has(ts, id) == \E k \in 1..Len(ts) : ts[k].id = id

\* The j-th smallest of a set of positions.
Nth(P, j) == CHOOSE p \in P : Cardinality({q \in P : q < p}) = j - 1

\* The items of ts at the positions P, in the order they have in ts.
Restriction(ts, P) == [j \in 1..Cardinality(P) |-> ts[Nth(P, j)]]

\* The store reads back from storage what it holds in memory.
InSync ==
    /\ LoadTodos(localStorage) = todos
    /\ LoadNextId(localStorage) = nextId

-----------------------------------------------------------------------------
\* C1: from a store constructed over empty storage, after any sequence of
\* operations no two items of the list have the same id.
C1_UniqueIds ==
    \A i \in 1..Len(todos) : \A j \in 1..Len(todos) :
        i # j => todos[i].id # todos[j].id

\* Two items in the list, the second added by a callback during a notification.
C1_Witness ==
    /\ Len(todos) = 2
    /\ last.op = "addTodo" /\ last.res = "done" /\ last.by = "callback"

\* C2: in every reachable state nextId is strictly greater than every id
\* addTodo has ever assigned, also the ids of items removed since.
C2_NextIdAboveIssued ==
    \A k \in 1..Len(issuedLog) : nextId > issuedLog[k]

\* clearAll has just emptied a list whose ids were all assigned before.
C2_Witness ==
    /\ last.op = "clearAll"
    /\ todos = <<>>
    /\ Len(issuedLog) = MaxAdds

\* C3: over operations and restarts an id is never reused: each id addTodo
\* assigns is strictly greater than every id assigned before it, in this store
\* or in one constructed earlier from the same storage.
C3_IdsNeverReused ==
    \A i \in 1..Len(issuedLog) : \A j \in 1..Len(issuedLog) :
        i < j => issuedLog[i] < issuedLog[j]

\* The first addTodo of a store constructed after ids were assigned, into a
\* list that holds none of the earlier items.
C3_Witness ==
    /\ epochStart >= 1
    /\ Len(issuedLog) = epochStart + 1
    /\ last.op = "addTodo" /\ last.res = "done"
    /\ Len(todos) = 1
    /\ todos[1].id = issuedLog[Len(issuedLog)]

\* C4: addTodo of an empty or white-space-only text leaves items and nextId
\* unchanged, writes nothing to storage and starts no notification.
C4_BlankAddIsNoOp ==
    [][ (last'.op = "addTodo" /\ IsBlank(last'.text)) =>
            /\ todos' = todos
            /\ nextId' = nextId
            /\ localStorage' = localStorage
            /\ last'.wrote = <<>>
            /\ Len(stack') = Len(stack)
            /\ last'.res = "noop" ]_vars

\* addTodo("  ") was just called on a store with items and listeners.
C4_Witness ==
    /\ last.op = "addTodo"
    /\ last.text = Str(<<" ", " ">>)
    /\ todos # <<>>
    /\ listeners # <<>>

\* C5: addTodo of a text that is non-empty after trimming appends exactly one
\* item, with completed = false, the trimmed text and the id nextId had;
\* nextId grows by one, the earlier items are unchanged, and the new id is
\* strictly greater than every id assigned before.
C5_AddAppends ==
    [][ (last'.op = "addTodo" /\ last'.text.t = "string" /\ ~IsBlank(last'.text)) =>
            /\ Len(todos') = Len(todos) + 1
            /\ SubSeq(todos', 1, Len(todos)) = todos
            /\ todos'[Len(todos')].id = nextId
            /\ todos'[Len(todos')].completed = FALSE
            /\ IsTrimOf(todos'[Len(todos')].text, last'.text.s)
            /\ nextId' = nextId + 1
            /\ \A k \in 1..Len(issuedLog) : issuedLog[k] < todos'[Len(todos')].id ]_vars

\* addTodo(" a b ") has just appended a second item.
C5_Witness ==
    /\ last.op = "addTodo" /\ last.res = "done"
    /\ last.text = Str(<<" ", "a", " ", "b", " ">>)
    /\ Len(todos) = 2
    /\ todos[2].text = <<"a", " ", "b">>

\* C6: in every reachable state activeCount + completedCount is the number of
\* items in the list.
C6_CountsAddUp == activeCount + completedCount = Len(todos)

\* A list with one active and one completed item.
C6_Witness ==
    /\ Len(todos) = 2
    /\ activeCount = 1
    /\ completedCount = 1

\* C7: from a store constructed over empty storage, no item's text is empty or
\* white-space-only, and every item's text is its own trimmed form.
C7_TextsTrimmed ==
    \A k \in 1..Len(todos) :
        /\ ~IsBlank(Str(todos[k].text))
        /\ IsTrimOf(todos[k].text, todos[k].text)

\* updateTodo has just stored a text that was passed with white space around it.
C7_Witness ==
    /\ last.op = "updateTodo" /\ last.res = "done"
    /\ last.text = Str(<<" ", "a", " ", "b", " ">>)
    /\ \E k \in 1..Len(todos) : todos[k].id = last.id /\ todos[k].text = <<"a", " ", "b">>

\* How many times c occurs in the sequence q.
Count(c, q) == Cardinality({k \in 1..Len(q) : q[k] = c})

\* notify() is about to invoke a listener.
CallbackDue == stack # <<>> /\ Top.i <= Len(listeners)

\* A callback runs only after both keys were written, and reads back from
\* storage what the store holds.
PersistedBeforeNotified ==
    /\ (last.op \in OpNames /\ last.res = "done") =>
            last.wrote = <<FullKey("items"), FullKey("nextId")>>
    /\ CallbackDue =>
            /\ \A key \in StorageKeys : localStorage[key] # NoItem
            /\ InSync

C9_OuterNotifiedFirst ==
    \A k \in 1..(Len(stack) - 1) : stack[k].i > Len(listeners)

\* C9, amended: operations called outside a callback are totally ordered, each
\* completing its persistence and notification before the next begins; an
\* operation called by a callback runs nested in the notification that invoked
\* the callback: it mutates, persists and notifies every subscriber before the
\* outer operation notifies its remaining subscribers.
C9_CallbackOperationsNest ==
    [][ /\ (last'.op \in OpNames /\ last'.by = "caller") => stack = <<>>
        /\ \A k \in 1..(Len(stack) - 1) : k <= Len(stack') /\ stack'[k] = stack[k]
        /\ \A k \in 1..Len(stack') :
              stack'[k].by = (IF k = 1 THEN "caller" ELSE "callback")
        /\ (last'.op \in OpNames /\ last'.res = "done") =>
              /\ LoadTodos(localStorage') = todos'
              /\ LoadNextId(localStorage') = nextId' ]_vars

\* The notification of an operation called by the first callback has returned
\* while the outer operation has its second subscriber still to notify.
C9_Witness ==
    /\ last.op = "notify" /\ last.res = "returned"
    /\ Len(last.called) = 2
    /\ Len(stack) = 1
    /\ stack[1].i = 2
    /\ Len(listeners) = 2

\* C10: while saves succeed, the persisted items and nextId equal those in
\* memory after every operation, so a store constructed from the same storage
\* has the same items, in the same order, and the same nextId.
C10_StorageMirrorsMemory ==
    [][ /\ InSync'
        /\ last'.op = "constructor" => todos' = todos /\ nextId' = nextId ]_vars

\* A store was just constructed from storage holding two items, one of them
\* completed, one with an inner space in its text.
C10_Witness ==
    /\ last.op = "constructor"
    /\ Len(todos) = 2
    /\ \E k \in 1..2 : todos[k].completed
    /\ \E k \in 1..2 : todos[k].text = <<"a", " ", "b">>
    /\ nextId = 3

\* C11: once TodoApp has taken its copy of the list, a step of a store
\* operation (its mutation and save) changes no item and no content of that
\* copy; the copy changes only when TodoApp takes a new one.
C11_CopyUnchangedByStore ==
    [][ last'.op \in OpNames => viewTodos' = viewTodos ]_vars

\* C12: toggleComplete(id) on an item of the list flips its flag, and a second
\* toggleComplete(id) right after it finds the item again and gives back the
\* list as it was before the first call, flag included; nextId changes in
\* neither.
C12_ToggleTwiceRestores ==
    [][ (last'.op = "toggleComplete" /\ Has(todos, last'.id)) =>
            \E i \in 1..Len(todos) :
                /\ todos[i].id = last'.id
                /\ Len(todos') = Len(todos)
                /\ todos'[i].id = last'.id
                /\ todos'[i].completed # todos[i].completed
                /\ ToggledTodos(todos', last'.id)[i].completed = todos[i].completed
                /\ ToggledTodos(todos', last'.id) = todos
                /\ nextId' = nextId ]_vars

\* toggleComplete(2) has just made the second of two items active again, the
\* first one being completed.
C12_Witness ==
    /\ last.op = "toggleComplete" /\ last.res = "done" /\ last.id = 2
    /\ Len(todos) = 2
    /\ todos[1].completed
    /\ todos[2].id = 2 /\ ~todos[2].completed
    /\ todos[2].text = <<"a", " ", "b">>

\* C13: toggleComplete(id) with an id no item has changes neither the items
\* nor nextId, writes nothing to storage and starts no notification.
C13_ToggleMissingIsNoOp ==
    [][ (last'.op = "toggleComplete" /\ ~Has(todos, last'.id)) =>
            /\ todos' = todos
            /\ nextId' = nextId
            /\ localStorage' = localStorage
            /\ last'.wrote = <<>>
            /\ Len(stack') = Len(stack)
            /\ last'.res = "noop" ]_vars

\* toggleComplete(1) was just called on a store that has item 2 only and has
\* listeners.
C13_Witness ==
    /\ last.op = "toggleComplete" /\ last.id = 1
    /\ Len(todos) = 1 /\ todos[1].id = 2
    /\ listeners # <<>>

\* C14: deleteTodo(id) leaves exactly the items with another id, in the order
\* and with the fields they had; the list gets shorter by one if the id was
\* in it and keeps its length otherwise; nextId is unchanged.
C14_DeleteKeepsTheOthers ==
    [][ last'.op = "deleteTodo" =>
            /\ todos' = Restriction(todos, {k \in 1..Len(todos) : todos[k].id # last'.id})
            /\ ~Has(todos', last'.id)
            /\ Len(todos') = Len(todos) - (IF Has(todos, last'.id) THEN 1 ELSE 0)
            /\ nextId' = nextId ]_vars

\* deleteTodo(1) has just been called and the list is the completed item 2,
\* two ids having been issued.
C14_Witness ==
    /\ last.op = "deleteTodo" /\ last.id = 1
    /\ Len(issuedLog) = 2
    /\ Len(todos) = 1
    /\ todos[1].id = 2 /\ todos[1].completed

\* The step just taken is deleteTodo with an id no item has, or clearCompleted
\* with no item completed.
NothingToRemove ==
    \/ last'.op = "deleteTodo" /\ ~Has(todos, last'.id)
    \/ last'.op = "clearCompleted" /\ \A k \in 1..Len(todos) : ~todos[k].completed

\* Such a step leaves the items and nextId as they were, writes both keys and
\* enters notify(), which has yet to invoke its first listener.
RemovesNothingButSavesAndNotifies ==
    NothingToRemove =>
        /\ todos' = todos
        /\ nextId' = nextId
        /\ last'.wrote = <<FullKey("items"), FullKey("nextId")>>
        /\ \A key \in StorageKeys : localStorage'[key] # NoItem
        /\ InSync'
        /\ Len(stack') = Len(stack) + 1
        /\ stack'[Len(stack')].i = 1
        /\ stack'[Len(stack')].called = <<>>

C16_UpdateSetsTextOnly ==
    [][ (/\ last'.op = "updateTodo"
         /\ Has(todos, last'.id)
         /\ last'.text.t = "string" /\ ~IsBlank(last'.text)) =>
            \E i \in 1..Len(todos) :
                /\ todos[i].id = last'.id
                /\ Len(todos') = Len(todos)
                /\ IsTrimOf(todos'[i].text, last'.text.s)
                /\ todos'[i].id = todos[i].id
                /\ todos'[i].completed = todos[i].completed
                /\ \A k \in 1..Len(todos) : k # i => todos'[k] = todos[k]
                /\ nextId' = nextId ]_vars

\* updateTodo(1, " a b ") has just given the completed first of two items its
\* new text.
C16_Witness ==
    /\ last.op = "updateTodo" /\ last.res = "done" /\ last.id = 1
    /\ last.text = Str(<<" ", "a", " ", "b", " ">>)
    /\ Len(todos) = 2
    /\ todos[1].id = 1 /\ todos[1].completed /\ todos[1].text = <<"a", " ", "b">>
    /\ todos[2].text = <<"a">>

\* C17: updateTodo(id, newText) with an id no item has, or with a newText that
\* is empty or white space only, changes no item, writes nothing to storage
\* and starts no notification.
C17_UpdateRejectedIsNoOp ==
    [][ (last'.op = "updateTodo" /\ (~Has(todos, last'.id) \/ IsBlank(last'.text))) =>
            /\ todos' = todos
            /\ nextId' = nextId
            /\ localStorage' = localStorage
            /\ last'.wrote = <<>>
            /\ Len(stack') = Len(stack)
            /\ last'.res = "noop" ]_vars

\* updateTodo(1, "  ") was just called on a store that has item 1 and has
\* listeners.
C17_Witness ==
    /\ last.op = "updateTodo" /\ last.id = 1
    /\ last.text = Str(<<" ", " ">>)
    /\ Has(todos, 1)
    /\ listeners # <<>>

\* C18: clearCompleted() leaves exactly the items that were not completed, in
\* the order and with the fields they had; afterwards completedCount is 0 and
\* activeCount is what it was.
C18_ClearCompletedKeepsActive ==
    [][ last'.op = "clearCompleted" =>
            /\ todos' = Restriction(todos, {k \in 1..Len(todos) : ~todos[k].completed})
            /\ completedCount' = 0
            /\ activeCount' = activeCount ]_vars

\* clearCompleted() has just been called and the list is the active item 2,
\* two ids having been issued.
C18_Witness ==
    /\ last.op = "clearCompleted" /\ last.by = "caller"
    /\ Len(issuedLog) = 2
    /\ Len(todos) = 1
    /\ todos[1].id = 2 /\ ~todos[1].completed

\* C19: a clearCompleted() right after a clearCompleted() changes neither the
\* items nor nextId: what one call leaves, a second call leaves as it is, both
\* when the second call is computed on the state the first produced and when a
\* callback of the first call makes it.
C19_ClearCompletedIdempotent ==
    [][ last'.op = "clearCompleted" =>
            /\ ClearedCompleted(todos') = todos'
            /\ nextId' = nextId
            /\ last.op = "clearCompleted" => todos' = todos ]_vars

\* The first callback of an operation has just called clearCompleted(), as
\* the first thing after the operation's own step, and an item is left.
C19_Witness ==
    /\ last.op = "clearCompleted" /\ last.by = "callback"
    /\ Len(stack) = 2
    /\ stack[1].i = 2 /\ stack[2].i = 1
    /\ todos # <<>>

\* C20: clearAll() leaves the list empty, so that both counts are 0, writes
\* both keys, enters notify() and leaves nextId as it was; an addTodo into a
\* list that was emptied gets an id above every id issued before.
C20_ClearAllKeepsNextId ==
    [][ /\ last'.op = "clearAll" =>
              /\ todos' = <<>>
              /\ activeCount' = 0 /\ completedCount' = 0
              /\ nextId' = nextId
              /\ last'.wrote = <<FullKey("items"), FullKey("nextId")>>
              /\ InSync'
              /\ Len(stack') = Len(stack) + 1
        /\ (last'.op = "addTodo" /\ last'.res = "done" /\ todos = <<>>) =>
              /\ todos'[1].id = last'.id
              /\ \A k \in 1..Len(issuedLog) : issuedLog[k] < last'.id ]_vars

\* clearAll() has just emptied the list of a store that has issued id 1: the
\* counter is 2 in memory and in storage, and notify() is about to invoke the
\* first listener.
C20_Witness ==
    /\ last.op = "clearAll" /\ last.res = "done"
    /\ issuedLog = <<1>>
    /\ todos = <<>>
    /\ nextId = 2 /\ LoadNextId(localStorage) = 2
    /\ listeners # <<>>
    /\ Len(stack) = 1 /\ stack[1].i = 1

\* The position of the item with this id in ts (ids are unique).
PositionOf(ts, id) == CHOOSE k \in 1..Len(ts) : ts[k].id = id

\* C21: no step changes the relative order of two items that are in the list
\* before and after it, and in every state reached from an empty store the
\* ids of the list are strictly increasing.
C21_OrderPreserved ==
    [][ /\ \A a \in 1..Len(todos) : \A b \in 1..Len(todos) :
              (a < b /\ Has(todos', todos[a].id) /\ Has(todos', todos[b].id)) =>
                  PositionOf(todos', todos[a].id) < PositionOf(todos', todos[b].id)
        /\ \A a \in 1..Len(todos') : \A b \in 1..Len(todos') :
              a < b => todos'[a].id < todos'[b].id ]_vars

\* updateTodo has just changed the text of the second of two items, the
\* first being completed.
C21_Witness ==
    /\ last.op = "updateTodo" /\ last.res = "done" /\ last.id = 2
    /\ Len(todos) = 2
    /\ todos[1].id = 1 /\ todos[1].completed
    /\ todos[2].id = 2

\* C22: when a save call raises in an operation, the error leaves the
\* operation with the list and nextId already changed as the operation changes
\* them, the "nextId" key not written, and no notify() begun; and an
\* operation whose saves succeed has written both keys and leaves storage equal
\* to memory.
C22_RaisedSaveLeavesMemoryAhead ==
    [][ /\ last'.res = "StorageError" =>
              /\ last'.op \in OpNames
              /\ stack' = <<>>
              /\ Len(last'.wrote) < 2
              /\ localStorage'[FullKey("nextId")] = localStorage[FullKey("nextId")]
              /\ last'.op = "addTodo" =>
                    /\ Len(todos') = Len(todos) + 1
                    /\ todos'[Len(todos')].id = nextId
                    /\ nextId' = nextId + 1
              /\ last'.op = "toggleComplete" =>
                    \E i \in 1..Len(todos) : /\ todos[i].id = last'.id
                                             /\ todos'[i].completed # todos[i].completed
              /\ last'.op = "updateTodo" =>
                    \E i \in 1..Len(todos) : /\ todos[i].id = last'.id
                                             /\ IsTrimOf(todos'[i].text, last'.text.s)
              /\ last'.op = "deleteTodo" => ~Has(todos', last'.id)
              /\ last'.op = "clearCompleted" => \A k \in 1..Len(todos') : ~todos'[k].completed
              /\ last'.op = "clearAll" => todos' = <<>>
        /\ (last'.op \in OpNames /\ last'.res = "done") =>
              /\ last'.wrote = <<FullKey("items"), FullKey("nextId")>>
              /\ InSync' ]_vars

\* addTodo has just raised out of its second save, on a store with a listener:
\* the item is in memory and in storage, the counter only in memory, and no
\* notify() runs.
C22_Witness ==
    /\ last.op = "addTodo" /\ last.res = "StorageError"
    /\ last.wrote = <<FullKey("items")>>
    /\ listeners # <<>>
    /\ stack = <<>>
    /\ Len(todos) = 1
    /\ LoadTodos(localStorage) = todos
    /\ LoadNextId(localStorage) < nextId

\* C23: with saves that succeed and callbacks that do not raise, every
\* operation of the store ends by returning, whatever its arguments.
C23_NoOperationRaises ==
    last.op \in OpNames => last.res \in {"done", "noop"}

\* The key is one of this service: storageKey, "_" and a key.
OwnKey(key, sk) ==
    /\ StartsWith(key, sk \o <<"_">>)
    /\ Len(key) = Len(sk) + 2

\* C24: clear() removes every key of its service and leaves every other key
\* of localStorage as it was, the keys of a service whose storageKey starts
\* with this service's storageKey included.
C24_ClearRemovesOwnKeysOnly ==
    [][ last'.op = "clear" =>
            \A key \in AllKeys :
                localStorage'[key] =
                    (IF OwnKey(key, last'.sk) THEN NoItem ELSE localStorage[key]) ]_vars

\* What load(key, DefaultValue) of the service sk returns from this storage.
Loads(ls, sk, key) == LoadOf(ls, sk, key, DefaultValue)

\* The step leaves what load returns for every key of every service, except
\* the key `key` of the service `sk`.
OtherLoadsUnchanged(sk, key) ==
    \A sk2 \in Services : \A key2 \in ServiceKeys :
        <<sk2, key2>> # <<sk, key>> =>
            Loads(localStorage', sk2, key2) = Loads(localStorage, sk2, key2)

\* C25: load(key, defaultValue) returns the value the latest save(key, value)
\* of a service with the same storageKey stored, and defaultValue when nothing
\* is stored under the key, after remove(key), after clear(), and when the
\* stored text does not parse; save and remove change what load returns for
\* no other key.
C25_LoadReturnsLastSaved ==
    [][ /\ (last'.op = "save" /\ last'.res = "stored") =>
              /\ Loads(localStorage', last'.sk, last'.key) = last'.value
              /\ OtherLoadsUnchanged(last'.sk, last'.key)
        /\ (last'.op = "save" /\ last'.res = "swallowed") => localStorage' = localStorage
        /\ last'.op = "remove" =>
              /\ Loads(localStorage', last'.sk, last'.key) = DefaultValue
              /\ OtherLoadsUnchanged(last'.sk, last'.key)
        /\ last'.op = "clear" =>
              \A key \in ServiceKeys : Loads(localStorage', last'.sk, key) = DefaultValue
        /\ last'.op = "setItem" =>
              \A sk \in Services : \A key \in ServiceKeys :
                  last'.key = FullKeyOf(sk, key) =>
                      Loads(localStorage', sk, key) = DefaultValue
        /\ last'.op = "load" =>
              /\ localStorage' = localStorage
              /\ last'.res = Loads(localStorage, last'.sk, last'.key)
              /\ localStorage[FullKeyOf(last'.sk, last'.key)] \in {NoItem, NotJson} =>
                    last'.res = DefaultValue
              /\ \A v \in ServiceValues :
                    localStorage[FullKeyOf(last'.sk, last'.key)] = StringifyNumber(v) =>
                        last'.res = v ]_vars

\* load('nextId') of the service 'todos' has just returned 2, while its key
\* 'items' holds a text that does not parse and the service 'todos2' holds 1
\* under 'nextId'.
C25_Witness ==
    /\ last.op = "load" /\ last.sk = <<storageKey>> /\ last.key = "nextId"
    /\ last.res = 2
    /\ localStorage[FullKeyOf(<<storageKey>>, "items")] = NotJson
    /\ Loads(localStorage, <<storageKey, "2">>, "nextId") = 1

\* C26: with StorageService, each of whose saves can fail and be swallowed,
\* the persisted "nextId" is at every point greater than every id of the
\* persisted "items", and no two items of the store's list have the same id.
C26_PersistedCounterAhead ==
    /\ \A k \in 1..Len(LoadTodos(localStorage)) :
          LoadTodos(localStorage)[k].id < LoadNextId(localStorage)
    /\ \A i \in 1..Len(todos) : \A j \in 1..Len(todos) :
          todos[i].id = todos[j].id => i = j

\* C27: toggleComplete(id) with the id of an item flips the flag of that item
\* and changes nothing else: its text, id and position, every other item, the
\* length of the list and nextId stay, and of activeCount and completedCount
\* one grows by 1 and the other shrinks by 1.
C27_ToggleFlipsOneFlag ==
    [][ (last'.op = "toggleComplete" /\ Has(todos, last'.id)) =>
            \E i \in 1..Len(todos) :
                /\ todos[i].id = last'.id
                /\ Len(todos') = Len(todos)
                /\ todos'[i].completed = ~todos[i].completed
                /\ todos'[i].text = todos[i].text
                /\ todos'[i].id = todos[i].id
                /\ \A k \in 1..Len(todos) : k # i => todos'[k] = todos[k]
                /\ nextId' = nextId
                /\ IF todos[i].completed
                   THEN /\ activeCount' = activeCount + 1
                        /\ completedCount' = completedCount - 1
                   ELSE /\ activeCount' = activeCount - 1
                        /\ completedCount' = completedCount + 1 ]_vars

\* toggleComplete(1) has just completed the first of two items, the second
\* being active.
C27_Witness ==
    /\ last.op = "toggleComplete" /\ last.res = "done" /\ last.id = 1
    /\ Len(todos) = 2
    /\ todos[1].id = 1 /\ todos[1].completed
    /\ ~todos[2].completed
    /\ activeCount = 1 /\ completedCount = 1

\* C28: every item of the list after a step is the item addTodo has just
\* appended or has the id and createdAt of an item of the list before; a step
\* that keeps the length of the list keeps id and createdAt at every position;
\* nextId changes only in addTodo with a text that is non-empty after
\* trimming, and never decreases.
C28_IdAndCreatedAtFixed ==
    [][ /\ \A j \in 1..Len(todos') :
              \/ /\ last'.op = "addTodo" /\ last'.res = "done"
                 /\ j = Len(todos')
              \/ \E k \in 1..Len(todos) :
                    /\ todos[k].id = todos'[j].id
                    /\ todos[k].createdAt = todos'[j].createdAt
        /\ Len(todos') = Len(todos) =>
              \A k \in 1..Len(todos) :
                  /\ todos'[k].id = todos[k].id
                  /\ todos'[k].createdAt = todos[k].createdAt
        /\ nextId' # nextId =>
              /\ last'.op = "addTodo"
              /\ last'.text.t = "string" /\ ~IsBlank(last'.text)
        /\ nextId' >= nextId ]_vars

\* updateTodo has just changed the text of the first of two items, which
\* keeps the earlier createdAt, and nextId is 3.
C28_Witness ==
    /\ last.op = "updateTodo" /\ last.res = "done" /\ last.id = 1
    /\ last.text = Str(<<" ", "a", " ", "b", " ">>)
    /\ Len(todos) = 2
    /\ todos[1].id = 1 /\ todos[1].createdAt = 1
    /\ todos[2].createdAt = 2
    /\ nextId = 3

\* C29: whenever a handler of TodoApp has returned, the view's list has the
\* items of the store's list in the same order, so that the total displayed
\* is activeCount + completedCount; and a declined confirmation changes
\* neither the store, nor storage, nor the view's list.
C29_ViewFollowsModel ==
    [][ /\ stack' = <<>> =>
              /\ viewTodos' = todos'
              /\ Len(viewTodos') = activeCount' + completedCount'
        /\ last'.res = "declined" =>
              /\ last'.op \in {"handleClearCompleted", "handleClearAll"}
              /\ todos' = todos /\ nextId' = nextId
              /\ localStorage' = localStorage
              /\ viewTodos' = viewTodos
              /\ stack' = stack ]_vars

\* The confirmation of handleClearCompleted has just been declined with a
\* completed and an active item in the store and in the view.
C29_Witness ==
    /\ last.op = "handleClearCompleted" /\ last.res = "declined"
    /\ Len(viewTodos) = 2
    /\ viewTodos = todos
    /\ activeCount = 1 /\ completedCount = 1

\* The string has a character that is not white space.
HasInk(str) == \E k \in 1..Len(str) : ~IsWhiteSpace(str[k])

\* C30: handleEdit enters editing with editValue the text of the todo;
\* handleSave, and Enter, with an editValue that is not all white space
\* dispatches one update-todo event with the id of the todo and leaves
\* editing, and with an editValue that is empty or all white space dispatches
\* nothing and stays in editing; handleCancel, and Escape, leaves editing,
\* empties editValue and dispatches nothing.
C30_EditModeMachine ==
    [][ /\ todoItem'.isEditing \in BOOLEAN
        /\ last'.op = "handleEdit" =>
              /\ todoItem'.isEditing
              /\ todoItem'.editValue = todoItem.todo.text
              /\ last'.dispatched = <<>>
        /\ (last'.op \in {"handleSave", "Enter"} /\ HasInk(todoItem.editValue)) =>
              /\ Len(last'.dispatched) = 1
              /\ last'.dispatched[1].type = "update-todo"
              /\ last'.dispatched[1].id = todoItem.todo.id
              /\ ~todoItem'.isEditing
        /\ (last'.op \in {"handleSave", "Enter"} /\ ~HasInk(todoItem.editValue)) =>
              /\ last'.dispatched = <<>>
              /\ todoItem.isEditing /\ todoItem'.isEditing
        /\ last'.op \in {"handleCancel", "Escape"} =>
              /\ ~todoItem'.isEditing
              /\ todoItem'.editValue = <<>>
              /\ last'.dispatched = <<>> ]_vars

\* Enter has just saved the edit " a b " of item 2 and left editing.
C30_Witness ==
    /\ last.op = "Enter"
    /\ Len(last.dispatched) = 1
    /\ last.dispatched[1].id = 2
    /\ last.dispatched[1].text = <<" ", "a", " ", "b", " ">>
    /\ ~todoItem.isEditing

\* C31: handleSubmit with an input that is non-empty after trimming
\* dispatches one add-todo event with the trimmed input, which adds one item
\* with that text, and sets inputValue to the empty string when the dispatch
\* has returned; with an input that is empty or all white space it dispatches
\* nothing and leaves inputValue and the store as they were; every text the
\* form delivers to addTodo is a string that is not blank.
C31_FormSubmitsTrimmedText ==
    [][ /\ last'.by = "handleSubmit" =>
              /\ HasInk(inputValue)
              /\ last'.op = "addTodo" /\ last'.res = "done"
              /\ last'.text.t = "string"
              /\ IsTrimOf(last'.text.s, inputValue)
              /\ Len(todos') = Len(todos) + 1
              /\ todos'[Len(todos')].text = last'.text.s
              /\ inputValue' = inputValue
              /\ Len(stack') = 1 /\ stack'[1].by = "handleSubmit"
        /\ (last'.op = "notify" /\ Top.by = "handleSubmit") =>
              /\ inputValue # <<>>
              /\ inputValue' = <<>>
              /\ stack' = <<>>
        /\ last'.op = "handleSubmit" =>
              /\ ~HasInk(inputValue)
              /\ last'.res = "nothing"
              /\ inputValue' = inputValue
              /\ todos' = todos /\ nextId' = nextId
              /\ localStorage' = localStorage
              /\ stack' = stack
        /\ last'.op = "addTodo" =>
              /\ last'.by = "handleSubmit"
              /\ last'.text.t = "string" /\ ~IsBlank(last'.text) ]_vars

\* handleSubmit has just dispatched the input " a b " as "a b": the item is in
\* the store, the notification of addTodo is running, and the input still
\* holds what was typed.
C31_Witness ==
    /\ last.op = "addTodo" /\ last.by = "handleSubmit"
    /\ last.text = Str(<<"a", " ", "b">>)
    /\ inputValue = <<" ", "a", " ", "b", " ">>
    /\ Len(stack) = 1 /\ stack[1].i = 1
    /\ todos[Len(todos)].text = <<"a", " ", "b">>

====
